---- MODULE Spec2Model ----
(***************************************************************************)
(* XP accrual in the two scripts of kbc-rpg-prototype:                     *)
(*   ai_tamagotchi.py  GameState.gain_xp, the leveling ledger (xp, level)  *)
(*   kbc_world.py      Player / Library / Oracle and the game loop of main *)
(***************************************************************************)
EXTENDS Integers, Sequences, FiniteSets, TLC

VARIABLES
    state,      \* ai_tamagotchi.py: the GameState instance, [xp, level]
    gs_pc,      \* position inside GameState.gain_xp: "idle" | "while"
    call,       \* the current/last gain_xp call: its argument and the state at entry
    notes,      \* level numbers printed by the current/last gain_xp call, in order
    player,     \* kbc_world.py: the Player instance, [x, y, xp, total_xp, age]
    pc,         \* kbc_world.py main: "loop" while the game loop runs, "done" after quit
    op,         \* the last method called directly on Player / Library, "none" in main
    command,    \* the last command read (after strip().lower()) or handed to interact
    amount,     \* the argument of the last direct Player.gain_xp call
    out,        \* what the last loop iteration / method call printed or returned
    applied     \* running sum of the amounts the game loop handed to Player.gain_xp

vars ==
    <<state, gs_pc, call, notes, player, pc, op, command, amount, out, applied>>

tamaVars == <<state, gs_pc, call, notes>>
kbcVars == <<player, pc, op, command, amount, out, applied>>

Max(a, b) == IF a >= b THEN a ELSE b
Min(a, b) == IF a <= b THEN a ELSE b

(***************************************************************************)
(* Bounds of the model.                                                    *)
(***************************************************************************)
\* gain_xp is not called again once the level exceeds MaxLevel
MaxLevel == 3
\* gain_xp is not called when it would take xp below -MaxDeficit
MaxDeficit == 120

(***************************************************************************)
(* ai_tamagotchi.py                                                        *)
(***************************************************************************)
\* XP awarded for every chat turn, and the bonus of a "teach:" turn
BaseXp == 10
TeachXp == 25

\* arguments tried through the API besides those of main
NonNegAmounts == {0, 1, 10, 35, 90, 100, 250, 450, 999}
NegAmounts == {-5, -100}

\* the threshold of a level: 100 * current level
ThresholdFlat(level) == 100
Threshold(level) == level * 100

\* the loop condition of gain_xp
LevelUpDueStrict(s) == s.xp > Threshold(s.level)
LevelUpDue(s) == s.xp >= Threshold(s.level)

InitGameState ==
    /\ state = [xp |-> 0, level |-> 1]
    /\ gs_pc = "idle"
    /\ call = [amount |-> 0, xp |-> 0, level |-> 1, raised |-> FALSE]
    /\ notes = << >>

\* gain_xp(amount), up to the first test of the loop condition
gain_xp_call(amt) ==
    /\ gs_pc = "idle"
    /\ state.level <= MaxLevel
    /\ state.xp + amt >= -MaxDeficit
    /\ call' = [amount |-> amt, xp |-> state.xp, level |-> state.level,
                raised |-> FALSE]
    /\ state' = [state EXCEPT !.xp = @ + amt]
    /\ notes' = << >>
    /\ gs_pc' = "while"
    /\ UNCHANGED kbcVars

\* one iteration of the while loop
gain_xp_while_old_level ==
    /\ gs_pc = "while"
    /\ LevelUpDue(state)
    /\ state' = [xp |-> state.xp - Threshold(state.level),
                 level |-> state.level + 1]
    /\ notes' = Append(notes, state.level)
    /\ UNCHANGED <<gs_pc, call>>
    /\ UNCHANGED kbcVars

gain_xp_while_no_consume ==
    /\ gs_pc = "while"
    /\ LevelUpDue(state)
    /\ state' = [state EXCEPT !.level = @ + 1]
    /\ notes' = Append(notes, state.level + 1)
    /\ UNCHANGED <<gs_pc, call>>
    /\ UNCHANGED kbcVars

gain_xp_while ==
    /\ gs_pc = "while"
    /\ LevelUpDue(state)
    /\ state' = [xp |-> state.xp - Threshold(state.level),
                 level |-> state.level + 1]
    /\ notes' = Append(notes, state.level + 1)
    /\ UNCHANGED <<gs_pc, call>>
    /\ UNCHANGED kbcVars

\* the loop condition is false: gain_xp returns
gain_xp_return ==
    /\ gs_pc = "while"
    /\ ~LevelUpDue(state)
    /\ gs_pc' = "idle"
    /\ UNCHANGED <<state, call, notes>>
    /\ UNCHANGED kbcVars

\* main: one chat turn awards 10 XP, 35 with the "teach:" prefix
ChatTurn ==
    \E extra_xp \in {0, TeachXp} : gain_xp_call(BaseXp + extra_xp)

\* gain_xp called directly with a non-negative amount
ApplyGain ==
    \E amt \in NonNegAmounts : gain_xp_call(amt)

\* gain_xp called directly with a negative amount
ApplyNegativeGain ==
    \E amt \in NegAmounts : gain_xp_call(amt)

(***************************************************************************)
(* kbc_world.py                                                            *)
(***************************************************************************)
\* the game loop stops taking input once total_xp reaches MaxXp
MaxXp == 53
\* ... or once MaxIdle turns have passed without a gain
MaxIdle == 2
\* Player.tick is not called directly more than MaxTicks times
MaxTicks == 1

width == 5
height == 5
required_total_xp == 50

\* arguments tried for Player.gain_xp, commands tried for interact
GainArgs == {-5, 0, 1, 2, 20, 999}
OtherCommands == {"ask", "study", "dance"}

\* Player.gain_xp: the gain is capped at 1 (and floored at 0)
Player_gain_xp_uncapped(p, amt) ==
    [p EXCEPT !.xp = @ + amt, !.total_xp = @ + amt]
Player_gain_xp_no_floor(p, amt) ==
    LET a == Min(amt, 1)
    IN  [p EXCEPT !.xp = @ + a, !.total_xp = @ + a]
Player_gain_xp_session_only(p, amt) ==
    LET a == Max(0, Min(amt, 1))
    IN  [p EXCEPT !.xp = @ + a]
Player_gain_xp(p, amt) ==
    LET a == Max(0, Min(amt, 1))
    IN  [p EXCEPT !.xp = @ + a, !.total_xp = @ + a]

Player_tick(p) == [p EXCEPT !.age = @ + 1]

\* Player.move: the new position and whether the move succeeded
Player_move_inclusive_bounds(p, dx, dy) ==
    LET new_x == p.x + dx
        new_y == p.y + dy
    IN  IF 0 <= new_x /\ new_x <= width /\ 0 <= new_y /\ new_y <= height
        THEN [player |-> [p EXCEPT !.x = new_x, !.y = new_y], ok |-> TRUE]
        ELSE [player |-> p, ok |-> FALSE]
Player_move(p, dx, dy) ==
    LET new_x == p.x + dx
        new_y == p.y + dy
    IN  IF 0 <= new_x /\ new_x < width /\ 0 <= new_y /\ new_y < height
        THEN [player |-> [p EXCEPT !.x = new_x, !.y = new_y], ok |-> TRUE]
        ELSE [player |-> p, ok |-> FALSE]

\* build_world: the kind of the tile at (x, y)
build_world(x, y) ==
    IF <<x, y>> = <<1, 1>> THEN "Oracle"
    ELSE IF <<x, y>> = <<3, 3>> THEN "Library"
    ELSE "Plain"

\* the gate of the Library: player.total_xp < self.required_total_xp
Library_locked_off_by_one(p) == p.total_xp <= required_total_xp
Library_locked(p) == p.total_xp < required_total_xp

\* Library.enter only prints
Library_enter(p) ==
    [player |-> p, out |-> IF Library_locked(p) THEN "locked" ELSE "none"]

\* interact: the player afterwards, the return value, what was printed and the
\* amount handed to gain_xp
Location_interact(p, cmd) ==
    [player |-> p, handled |-> FALSE, out |-> "none", gain |-> 0]

Oracle_interact(p, cmd, correct) ==
    IF cmd = "ask"
    THEN [player |-> Player_gain_xp(p, 1), handled |-> TRUE,
          out |-> IF correct THEN "oracle: correct" ELSE "oracle: answer was",
          gain |-> 1]
    ELSE [player |-> p, handled |-> FALSE, out |-> "none", gain |-> 0]

Library_interact_ungated(p, cmd) ==
    IF cmd = "study"
    THEN [player |-> Player_gain_xp(p, 1), handled |-> TRUE,
          out |-> "studied", gain |-> 1]
    ELSE [player |-> p, handled |-> FALSE, out |-> "none", gain |-> 0]
Library_interact(p, cmd) ==
    IF Library_locked(p)
    THEN [player |-> p, handled |-> FALSE, out |-> "none", gain |-> 0]
    ELSE IF cmd = "study"
    THEN [player |-> Player_gain_xp(p, 1), handled |-> TRUE,
          out |-> "studied", gain |-> 1]
    ELSE [player |-> p, handled |-> FALSE, out |-> "none", gain |-> 0]

\* location.interact(player, command) for the tile the player stands on
interact(p, cmd, correct) ==
    LET location == build_world(p.x, p.y)
    IN  IF location = "Oracle" THEN Oracle_interact(p, cmd, correct)
        ELSE IF location = "Library" THEN Library_interact(p, cmd)
        ELSE Location_interact(p, cmd)

(* main: one action per branch of the loop body; each starts with player.tick() *)
LoopRuns ==
    /\ pc = "loop"
    /\ player.total_xp < MaxXp
    /\ player.age - player.total_xp < MaxIdle

Idle(cmd, printed) ==
    /\ LoopRuns
    /\ player' = Player_tick(player)
    /\ command' = cmd
    /\ out' = printed
    /\ UNCHANGED <<pc, op, amount, applied>>
    /\ UNCHANGED tamaVars

Blank == Idle("", "none")

Quit ==
    /\ LoopRuns
    /\ \E cmd \in {"quit", "exit"} : command' = cmd
    /\ player' = Player_tick(player)
    /\ out' = "thanks for playing"
    /\ pc' = "done"
    /\ UNCHANGED <<op, amount, applied>>
    /\ UNCHANGED tamaVars

Go(cmds, dx, dy, blocked) ==
    /\ LoopRuns
    /\ \E cmd \in cmds : command' = cmd
    /\ LET m == Player_move(Player_tick(player), dx, dy)
       IN  /\ player' = IF m.ok THEN Player_gain_xp(m.player, 1) ELSE m.player
           /\ applied' = IF m.ok THEN applied + 1 ELSE applied
           /\ out' = IF m.ok THEN "none" ELSE blocked
    /\ UNCHANGED <<pc, op, amount>>
    /\ UNCHANGED tamaVars

North == Go({"north", "n"}, 0, -1, "cannot move further north")
South == Go({"south", "s"}, 0, 1, "cannot move further south")
East == Go({"east", "e"}, 1, 0, "cannot move further east")
West == Go({"west", "w"}, -1, 0, "cannot move further west")

Status == Idle("status", "status")
Wait == Idle("wait", "xp does not increase")
Help == Idle("help", "help")

\* any other command goes to location.interact; unhandled ones are unknown
Interact ==
    /\ LoopRuns
    /\ \E cmd \in OtherCommands, correct \in BOOLEAN :
         LET r == interact(Player_tick(player), cmd, correct)
         IN  /\ command' = cmd
             /\ player' = r.player
             /\ applied' = applied + r.gain
             /\ out' = IF r.handled THEN r.out ELSE "unknown command"
    /\ UNCHANGED <<pc, op, amount>>
    /\ UNCHANGED tamaVars

(* the methods of Player and Library called directly, in any order; command  *)
(* and amount are reset by the calls that take no such argument             *)
CallGainXp ==
    /\ player.total_xp < MaxXp
    /\ \E amt \in GainArgs :
         /\ player' = Player_gain_xp(player, amt)
         /\ amount' = amt
    /\ op' = "Player.gain_xp"
    /\ command' = ""
    /\ out' = "none"
    /\ UNCHANGED <<pc, applied>>
    /\ UNCHANGED tamaVars

CallTick ==
    /\ player.age < MaxTicks
    /\ player' = Player_tick(player)
    /\ op' = "Player.tick"
    /\ command' = ""
    /\ amount' = 0
    /\ out' = "none"
    /\ UNCHANGED <<pc, applied>>
    /\ UNCHANGED tamaVars

CallMove ==
    /\ \E d \in {<<0, -1>>, <<0, 1>>, <<1, 0>>, <<-1, 0>>} :
         LET m == Player_move(player, d[1], d[2])
         IN  /\ player' = m.player
             /\ out' = IF m.ok THEN "True" ELSE "False"
    /\ op' = "Player.move"
    /\ command' = ""
    /\ amount' = 0
    /\ UNCHANGED <<pc, applied>>
    /\ UNCHANGED tamaVars

CallEnter ==
    /\ LET r == Library_enter(player)
       IN  /\ player' = r.player
           /\ out' = r.out
    /\ op' = "Library.enter"
    /\ command' = ""
    /\ amount' = 0
    /\ UNCHANGED <<pc, applied>>
    /\ UNCHANGED tamaVars

CallInteract ==
    /\ player.total_xp < MaxXp
    /\ \E cmd \in OtherCommands :
         LET r == Library_interact(player, cmd)
         IN  /\ command' = cmd
             /\ player' = r.player
             /\ out' = IF r.handled THEN "True" ELSE "False"
    /\ op' = "Library.interact"
    /\ amount' = 0
    /\ UNCHANGED <<pc, applied>>
    /\ UNCHANGED tamaVars

InitPlayer ==
    /\ player = [x |-> 2, y |-> 2, xp |-> 0, total_xp |-> 0, age |-> 0]
    /\ pc = "loop"
    /\ op = "none"
    /\ command = ""
    /\ amount = 0
    /\ out = "none"
    /\ applied = 0

Init == InitGameState /\ InitPlayer

NextLeveling == ChatTurn \/ ApplyGain \/ gain_xp_while \/ gain_xp_return
SpecLeveling == Init /\ [][NextLeveling]_vars

\* gain_xp runs to completion once called: the script is one sequential thread
SpecLevelingFair ==
    SpecLeveling /\ WF_vars(gain_xp_while) /\ WF_vars(gain_xp_return)

NextAnyAmount ==
    ChatTurn \/ ApplyGain \/ ApplyNegativeGain \/ gain_xp_while \/ gain_xp_return
SpecAnyAmount == Init /\ [][NextAnyAmount]_vars

Next ==
    \/ Blank \/ Quit \/ North \/ South \/ East \/ West
    \/ Status \/ Wait \/ Help \/ Interact
Spec == Init /\ [][Next]_vars

NextPlayer == CallGainXp \/ CallTick \/ CallMove \/ CallEnter \/ CallInteract
SpecPlayer == Init /\ [][NextPlayer]_vars

(***************************************************************************)
(* Properties of the leveling ledger (GameState.gain_xp)                   *)
(***************************************************************************)
\* 100*a + 100*(a+1) + ... + 100*b, the XP consumed by the level-ups a -> b+1
RECURSIVE SumThresholds(_, _)
SumThresholds(a, b) == IF a > b THEN 0 ELSE 100 * b + SumThresholds(a, b - 1)

\* the levels whose threshold the XP present at the entry of the call pays for
Crossed ==
    {k \in call.level .. call.level + (call.xp + call.amount) \div 100 :
        call.xp + call.amount >= SumThresholds(call.level, k)}

\* C1: starting from xp = 0, level = 1, after every gain_xp call with a
\* non-negative amount, 0 <= xp < level * 100 and level >= 1.
C1_XpWithinLevel ==
    gs_pc = "idle" =>
        /\ 0 <= state.xp
        /\ state.xp < state.level * 100
        /\ state.level >= 1

\* a call that leveled up more than once has returned
C1_Witness ==
    /\ gs_pc = "idle"
    /\ call.amount >= 0
    /\ state.level >= call.level + 2
    /\ call.level > 1

\* C2: a gain_xp call with a negative amount fails with an error and leaves
\* the ledger as it was, in the leveling and in the KBC variant.
C2_NegativeAmountRejected ==
    /\ (gs_pc = "idle" /\ call.amount < 0) =>
          /\ call.raised
          /\ state.xp = call.xp
          /\ state.level = call.level
    /\ (op = "Player.gain_xp" /\ amount < 0) => out = "error"

\* C3: a gain_xp call prints exactly one level number per threshold crossed,
\* in ascending order from the level after the one at entry, none skipped or
\* repeated, and none when no threshold is crossed; gaining 450 from xp = 0,
\* level = 1 prints 2 then 3 and leaves xp = 150.
C3_OneNotePerThreshold ==
    /\ gs_pc = "idle" =>
          /\ Len(notes) = Cardinality(Crossed)
          /\ \A i \in 1 .. Len(notes) : notes[i] = call.level + i
    /\ gs_pc = "while" =>
          \A i \in 1 .. Len(notes) : notes[i] = call.level + i
    /\ (gs_pc = "idle" /\ call.amount = 450 /\ call.xp = 0 /\ call.level = 1) =>
          (notes = <<2, 3>> /\ state.xp = 150)

\* gaining 450 from xp = 0, level = 1 has returned
C3_Witness ==
    /\ gs_pc = "idle"
    /\ call.amount = 450 /\ call.xp = 0 /\ call.level = 1
    /\ Len(notes) = 2

\* C4: gain_xp(amount) with amount >= 0 from (xp, level) with
\* 0 <= xp < level*100 ends in the only state (xp', level') with
\* level' >= level, 0 <= xp' < level'*100 and
\* xp' + 100*level + ... + 100*(level'-1) = xp + amount; gaining 250 from
\* xp = 0, level = 1 gives xp = 150, level = 2 and one notification.
C4_XpConserved ==
    (gs_pc = "idle" /\ call.amount >= 0
        /\ 0 <= call.xp /\ call.xp < call.level * 100) =>
        /\ state.level >= call.level
        /\ 0 <= state.xp /\ state.xp < state.level * 100
        /\ state.xp + SumThresholds(call.level, state.level - 1)
              = call.xp + call.amount
        /\ \A l \in call.level .. call.level + (call.xp + call.amount) \div 100 :
              LET x == call.xp + call.amount - SumThresholds(call.level, l - 1)
              IN  (0 <= x /\ x < l * 100) => (x = state.xp /\ l = state.level)
        /\ (call.amount = 250 /\ call.xp = 0 /\ call.level = 1) =>
              (state = [xp |-> 150, level |-> 2] /\ notes = <<2>>)

\* gaining 250 from xp = 0, level = 1 has returned
C4_Witness ==
    /\ gs_pc = "idle"
    /\ call.amount = 250 /\ call.xp = 0 /\ call.level = 1
    /\ state.level = 2

(***************************************************************************)
(* Properties of the KBC ledger (Player, Library) and of the game loop     *)
(***************************************************************************)
\* C5: Player.gain_xp(amount) adds exactly min(max(amount, 0), 1) to xp and
\* to total_xp for every integer amount, never more than 1; gain_xp(999) from
\* xp = 0, total_xp = 0 gives xp = 1, total_xp = 1.
C5_GainClampedToOne ==
    [][op' = "Player.gain_xp" =>
          LET d == Min(Max(amount', 0), 1)
          IN  /\ player'.xp = player.xp + d
              /\ player'.total_xp = player.total_xp + d
              /\ player'.total_xp - player.total_xp <= 1
              /\ (amount' = 999 /\ player.xp = 0 /\ player.total_xp = 0) =>
                    (player'.xp = 1 /\ player'.total_xp = 1)]_vars

\* gain_xp(999) was applied to the fresh player
C5_Witness ==
    /\ op = "Player.gain_xp"
    /\ amount = 999
    /\ player.xp = 1 /\ player.total_xp = 1

C7_TotalXpIsRunningSum ==
    /\ [](player.total_xp = applied /\ player.total_xp >= 0)
    /\ [][player'.total_xp >= player.total_xp]_vars

\* gains from moves and from the Oracle, followed by an idle turn
C7_Witness ==
    /\ command = "wait"
    /\ player.total_xp >= 3
    /\ player.age > player.total_xp + 1
    /\ <<player.x, player.y>> = <<1, 1>>

\* C8: at the Library, "study" is handled and awards 1 XP if and only if
\* total_xp >= required_total_xp (50) when the command is given; below the
\* threshold it is not handled and awards nothing.
C8_StudyIffGateOpen ==
    [][(command' = "study" /\ <<player.x, player.y>> = <<3, 3>>) =>
          IF player.total_xp >= required_total_xp
          THEN /\ out' = "studied"
               /\ player'.xp = player.xp + 1
               /\ player'.total_xp = player.total_xp + 1
          ELSE /\ out' = "unknown command"
               /\ player'.xp = player.xp
               /\ player'.total_xp = player.total_xp]_vars

\* "study" was given at the Library with total_xp exactly 50, and handled
C8_Witness ==
    /\ command = "study"
    /\ out = "studied"
    /\ <<player.x, player.y>> = <<3, 3>>
    /\ player.total_xp = required_total_xp + 1

\* C9: Library.enter, and Library.interact when total_xp < required_total_xp,
\* leave the player (xp, total_xp, position, age) unchanged, and the same call
\* repeated gives the same result.
C9_GateCheckIsPure ==
    [][/\ op' = "Library.enter" => player' = player
       /\ (op' = "Library.interact" /\ player.total_xp < required_total_xp) =>
             (player' = player /\ out' = "False")
       /\ (op = "Library.enter" /\ op' = "Library.enter") => out' = out
       /\ (/\ op = "Library.interact" /\ op' = "Library.interact"
           /\ command' = command
           /\ player.total_xp < required_total_xp) => out' = out]_vars

\* the gate has denied "study" one XP short of the threshold, after a tick and
\* a move to the Library
C9_Witness ==
    /\ op = "Library.interact"
    /\ command = "study"
    /\ out = "False"
    /\ player.total_xp = required_total_xp - 1
    /\ player.age = 1
    /\ <<player.x, player.y>> = <<3, 3>>

\* C10: whenever the player stands on the Library tile (3,3), total_xp >= 50.
C10_LibraryNeedsFifty ==
    <<player.x, player.y>> = <<3, 3>> => player.total_xp >= required_total_xp

\* the step named by a movement command
Direction(cmd) ==
    IF cmd \in {"north", "n"} THEN <<0, -1>>
    ELSE IF cmd \in {"south", "s"} THEN <<0, 1>>
    ELSE IF cmd \in {"east", "e"} THEN <<1, 0>>
    ELSE <<-1, 0>>

C12_GainXpTerminates ==
    /\ (gs_pc = "while") ~> (gs_pc = "idle")
    /\ [][(gs_pc = "while" /\ gs_pc' = "while") =>
             (state'.xp <= state.xp - 100 /\ state'.xp >= 0)]_vars

\* gain_xp(999) has returned after at least three iterations of the loop
C12_Witness ==
    /\ gs_pc = "idle"
    /\ call.amount = 999
    /\ Len(notes) >= 3
    /\ state.level = call.level + Len(notes)

====
